---- MODULE Spec2Model ----
(***************************************************************************)
(* Model of the anvil-connect-nodejs relying-party client:                 *)
(*   lib/AccessToken.js  - AccessToken.decode / AccessToken.verify         *)
(*   index.js            - AnvilConnect client (discover, getJWKs, token,  *)
(*                         userInfo, verify, authorizationParams)          *)
(*                                                                         *)
(* JavaScript values are represented as follows.                           *)
(*   object        a TLA+ record/function whose DOMAIN is the set of the   *)
(*                 object's own properties (an absent property is absent   *)
(*                 from the DOMAIN and reads as undefined)                 *)
(*   string        scope strings are sequences of one-character strings,   *)
(*                 so that String.prototype.indexOf is a real substring    *)
(*                 search; identifiers (issuer, client ids) are atoms      *)
(*   JSON value    [type |-> "object", fields |-> <record>] or             *)
(*                 [type |-> "null"] or [type |-> "undefined"]             *)
(*   token         a string whose characters are pieces: the separator '.' *)
(*                 or a chunk of base64 text standing for what it decodes  *)
(*                 to; [type |-> "string", chars |-> <pieces>]             *)
(***************************************************************************)
EXTENDS Naturals, Integers, Sequences, FiniteSets, TLC

VARIABLES
    (* ---- one AccessToken.verify call ---- *)
    vpc,        \* position of the call: idle, jwt, random, waiting, done
    token,      \* the token argument
    options,    \* the options argument
    jwtRes,     \* result slot of the async.parallel task `jwt`
    randomRes,  \* result slot of the async.parallel task `random`
    finished,   \* async.parallel's final callback has been invoked
    outcome,    \* sequence of invocations of `callback` (and uncaught throws)
    requests,   \* HTTP requests sent by the call, in order
    response,   \* what the HTTP layer answered to the introspection request
    checks,     \* claim checks evaluated by the final callback, in order
    now,        \* the clock (seconds) when the final callback validates claims
    (* ---- the AnvilConnect client and one operation on it ---- *)
    client,         \* the instance: issuer, client_id, client_secret, redirect_uri, scope
    configuration,  \* this.configuration: the cached provider configuration
    jwks,           \* this.jwks: the cached JWK set
    op,             \* the operation called on the client, with its arguments
    cpc,            \* its position: idle, tokenWait, verifying, userInfoWait, done
    http,           \* HTTP requests sent by the operation itself, in order
    data,           \* the body of the token endpoint's response
    idState,        \* the id_claims task: idle, pending, ok, failed
    accState,       \* the access_claims task: idle, pending, ok, failed, thrown
    results,        \* results of the two tasks, by name
    joined,         \* the final callback of token's async.parallel has been invoked
    promise,        \* the promise the operation returned
    settleCalls,    \* invocations of the promise's resolve and reject, in order
    thrown,         \* the exception the operation threw at its caller, if any
    fetches,        \* the discover and getJWKs calls made, in order, each with
                    \* its request, its promise and what was answered
    returned        \* what a synchronous operation returned

verifyVars == <<vpc, token, options, jwtRes, randomRes, finished, outcome, requests,
                response, checks, now>>
clientVars == <<client, configuration, jwks, op, cpc, http, data, idState, accState,
                results, joined, promise, settleCalls, thrown, fetches, returned>>
vars == <<verifyVars, clientVars>>

(***************************************************************************)
(* Bounds of the model                                                     *)
(***************************************************************************)
\* times (seconds) range over 0..MaxTime
MaxTime == 2
\* scope strings have at most MaxScopeLen characters
MaxScopeLen == 2
\* malformed structured tokens have up to MaxSegments segments
MaxSegments == 4
\* JWKS documents list at most MaxKeys keys
MaxKeys == 2

(***************************************************************************)
(* JavaScript values                                                       *)
(***************************************************************************)
JSUndefined == [type |-> "undefined"]
JSNull == [type |-> "null"]
Obj(fields) == [type |-> "object", fields |-> fields]
Str(chars) == [type |-> "string", chars |-> chars]
IsStr(v) == v.type = "string"
IsObj(v) == v.type = "object"
\* reading a property of null or undefined throws a TypeError
Readable(v) == IsObj(v)
Has(v, f) == IsObj(v) /\ f \in DOMAIN v.fields
Get(v, f) == v.fields[f]
\* ToBoolean of a JSON value: objects are truthy, null and undefined falsy
TruthyValue(v) == IsObj(v)

(***************************************************************************)
(* Strings: String.prototype.indexOf                                       *)
(***************************************************************************)
\* s occurs in h at (1-based) position i
OccursAt(h, s, i) ==
    /\ i + Len(s) - 1 <= Len(h)
    /\ \A k \in 1..Len(s) : h[i + k - 1] = s[k]

\* h.indexOf(s): the 0-based position of the first occurrence, else -1
StrIndexOf(h, s) ==
    IF \E i \in 1..(Len(h) + 1) : OccursAt(h, s, i)
    THEN (CHOOSE i \in 1..(Len(h) + 1) :
              /\ OccursAt(h, s, i)
              /\ \A j \in 1..(i - 1) : ~OccursAt(h, s, j)) - 1
    ELSE -1

\* Array.prototype.indexOf (strict equality on the elements)
ArrIndexOf(a, x) ==
    IF \E i \in 1..Len(a) : a[i] = x
    THEN (CHOOSE i \in 1..Len(a) :
              /\ a[i] = x
              /\ \A j \in 1..(i - 1) : a[j] # x) - 1
    ELSE -1

\* ToBoolean of a string: only the empty string is falsy
TruthyStr(s) == Len(s) > 0

(***************************************************************************)
(* Tokens                                                                  *)
(***************************************************************************)
Dot == [text |-> "."]
\* base64 text that decodes to the JSON text of value v
JsonChunk(v) == [text |-> "json", value |-> v]
\* base64 text that does not decode to JSON text
GarbageChunk == [text |-> "garbage"]
\* a signature; good tells whether it is the RS256 signature of the token's
\* header and payload segments under the key the verifier is configured with
SigChunk(good) == [text |-> "sig", good |-> good]

\* the search for '.' looking at the first character only
DotIndexOf_FirstCharOnly(t) ==
    IF Len(t.chars) > 0 /\ t.chars[1] = Dot THEN 0 ELSE -1

\* token.indexOf('.'), 0-based, -1 when there is none
DotIndexOf(t) == ArrIndexOf(t.chars, Dot)

\* the segments of the characters cs, split at each '.'
RECURSIVE SplitChars(_)
SplitChars(cs) ==
    IF ArrIndexOf(cs, Dot) = -1
    THEN <<cs>>
    ELSE <<SubSeq(cs, 1, ArrIndexOf(cs, Dot))>>
            \o SplitChars(SubSeq(cs, ArrIndexOf(cs, Dot) + 2, Len(cs)))

\* token.split('.')
Split(t) == SplitChars(t.chars)

\* JSON.parse(new Buffer(seg, 'base64').toString()) does not throw
Parses(seg) == Len(seg) = 1 /\ seg[1].text = "json"
\* ... and its value
Parsed(seg) == seg[1].value

JSError(message) == [type |-> "Error", message |-> message]
IsError(v) == v.type = "Error"

\* decode accepting any token of at least three segments
decode_AtLeastThree(t, publickey) ==
    LET segments == Split(t) IN
    IF Len(segments) < 3
    THEN JSError("Invalid access token segments")
    ELSE IF ~(Parses(segments[1]) /\ Parses(segments[2]))
    THEN JSError("Unable to decode token")
    ELSE Obj([header |-> Parsed(segments[1]),
              payload |-> Parsed(segments[2]),
              signature |-> segments[3]])

\* AccessToken.decode(token, publickey)
decode(t, publickey) ==
    LET segments == Split(t) IN
    IF Len(segments) # 3
    THEN JSError("Invalid access token segments")
    ELSE IF ~(Parses(segments[1]) /\ Parses(segments[2]))
    THEN JSError("Unable to decode token")
    ELSE Obj([header |-> Parsed(segments[1]),
              payload |-> Parsed(segments[2]),
              signature |-> segments[3]])

(***************************************************************************)
(* Errors                                                                  *)
(***************************************************************************)
\* new UnauthorizedError(props): an OAuth2-shaped error carrying the error
\* code, description, status code and realm it is constructed from
ErrorProps == {"realm", "error", "error_description", "statusCode"}
UnauthorizedError(props) ==
    [f \in (DOMAIN props \cap ErrorProps) \cup {"type"} |->
        IF f = "type" THEN "UnauthorizedError" ELSE props[f]]

\* a TypeError raised by the JavaScript runtime
TypeError(message) == [type |-> "TypeError", message |-> message]
\* an error of the HTTP layer (superagent's err)
TransportError == [type |-> "TransportError"]

(***************************************************************************)
(* Events of a call: invocations of its callback, and exceptions           *)
(***************************************************************************)
Validated(claims) == [kind |-> "validated", claims |-> claims]
Rejected(err) == [kind |-> "rejected", err |-> err]
Thrown(err) == [kind |-> "thrown", err |-> err]

(***************************************************************************)
(* AccessToken.verify: the final callback of async.parallel                *)
(***************************************************************************)
\* claims.iss !== issuer (the configured issuer is always a string here, so
\* an absent iss, which reads as undefined, differs from it)
MismatchingIssuer(claims, opts) ==
    ~Has(claims, "iss") \/ Get(claims, "iss") # opts.issuer

\* `clients` is truthy: any array is, the empty one included
ClientsConfigured(opts) == "clients" \in DOMAIN opts

\* the audience test with the comparison inverted
MismatchingAudience_Inverted(claims, opts) ==
    /\ ClientsConfigured(opts)
    /\ Has(claims, "aud")
    /\ ArrIndexOf(opts.clients, Get(claims, "aud")) # -1

\* clients && clients.indexOf(claims.aud) === -1
MismatchingAudience(claims, opts) ==
    /\ ClientsConfigured(opts)
    /\ \/ ~Has(claims, "aud")
       \/ ArrIndexOf(opts.clients, Get(claims, "aud")) = -1

\* the expiry test with one second of leeway
Expired_Leeway(claims, n) == Has(claims, "exp") /\ Get(claims, "exp") + 1 < n

\* claims.exp < nowSeconds(); undefined < n is false
Expired(claims, n) == Has(claims, "exp") /\ Get(claims, "exp") < n

\* `scope` is truthy: defined and not the empty string
ScopeRequired(opts) == "scope" \in DOMAIN opts /\ TruthyStr(opts.scope)

\* claims.scope.indexOf(scope) === -1, for claims that carry a scope
InsufficientScope(claims, opts) ==
    StrIndexOf(Get(claims, "scope"), opts.scope) = -1

\* the checks evaluated when the callback gets as far as check number k
ChecksUpTo(opts, k) ==
    SelectSeq(<<"issuer", "audience", "expiry", "scope">>,
              LAMBDA c : /\ \/ c = "issuer"
                            \/ c = "audience" /\ k >= 2 /\ ClientsConfigured(opts)
                            \/ c = "expiry" /\ k >= 3
                            \/ c = "scope" /\ k >= 4 /\ ScopeRequired(opts))

Forbidden(code, description) ==
    Rejected(UnauthorizedError([error |-> code,
                                error_description |-> description,
                                statusCode |-> 403]))

\* the claim checks with expiry tested before the audience
CheckClaims_ExpiryBeforeAudience(claims, opts, n) ==
    IF MismatchingIssuer(claims, opts)
    THEN [event |-> Forbidden("invalid_token", "Mismatching issuer"),
          checks |-> ChecksUpTo(opts, 1)]
    ELSE IF Expired(claims, n)
    THEN [event |-> Forbidden("invalid_token", "Expired access token"),
          checks |-> <<"issuer", "expiry">>]
    ELSE IF MismatchingAudience(claims, opts)
    THEN [event |-> Forbidden("invalid_token", "Mismatching audience"),
          checks |-> <<"issuer", "expiry", "audience">>]
    ELSE IF ScopeRequired(opts) /\ ~Has(claims, "scope")
    THEN [event |-> Thrown(TypeError("Cannot read property 'indexOf' of undefined")),
          checks |-> ChecksUpTo(opts, 4)]
    ELSE IF ScopeRequired(opts) /\ InsufficientScope(claims, opts)
    THEN [event |-> Forbidden("insufficient_scope", "Insufficient scope"),
          checks |-> ChecksUpTo(opts, 4)]
    ELSE [event |-> Validated(claims), checks |-> ChecksUpTo(opts, 4)]

\* The claim checks of the final callback, given candidate claims that are
\* an object.  Yields the event the callback ends in and the checks it
\* evaluated, in order.
CheckClaims(claims, opts, n) ==
    IF MismatchingIssuer(claims, opts)
    THEN [event |-> Forbidden("invalid_token", "Mismatching issuer"),
          checks |-> ChecksUpTo(opts, 1)]
    ELSE IF MismatchingAudience(claims, opts)
    THEN [event |-> Forbidden("invalid_token", "Mismatching audience"),
          checks |-> ChecksUpTo(opts, 2)]
    ELSE IF Expired(claims, n)
    THEN [event |-> Forbidden("invalid_token", "Expired access token"),
          checks |-> ChecksUpTo(opts, 3)]
    \* claims.scope.indexOf throws when claims carry no scope
    ELSE IF ScopeRequired(opts) /\ ~Has(claims, "scope")
    THEN [event |-> Thrown(TypeError("Cannot read property 'indexOf' of undefined")),
          checks |-> ChecksUpTo(opts, 4)]
    ELSE IF ScopeRequired(opts) /\ InsufficientScope(claims, opts)
    THEN [event |-> Forbidden("insufficient_scope", "Insufficient scope"),
          checks |-> ChecksUpTo(opts, 4)]
    ELSE [event |-> Validated(claims), checks |-> ChecksUpTo(opts, 4)]

\* function (err, result) { ... }: the final callback of async.parallel.
\* err is JSUndefined when no task failed.
FinalCallback(err, result, opts, n) ==
    IF err # JSUndefined
    THEN [event |-> Rejected(err), checks |-> <<>>]
    \* var claims = result.random || result.jwt.payload
    ELSE IF ~TruthyValue(result.random) /\ ~Readable(result.jwt)
    THEN [event |-> Thrown(TypeError("Cannot read property 'payload' of undefined")),
          checks |-> <<>>]
    ELSE LET claims == IF TruthyValue(result.random)
                       THEN result.random
                       ELSE Get(result.jwt, "payload")
         IN IF ~Readable(claims)
            THEN [event |-> Thrown(TypeError("Cannot read property 'iss' of null")),
                  checks |-> <<"issuer">>]
            ELSE CheckClaims(claims, opts, n)

(***************************************************************************)
(* Inputs                                                                  *)
(***************************************************************************)
Issuer == "https://idp.example"
Issuers == {Issuer, "https://evil.example"}
ClientIds == {"c1", "c2"}
Times == 0..MaxTime
ScopeChars == {"a", "b"}
ScopeStrings == UNION {[1..k -> ScopeChars] : k \in 0..MaxScopeLen}

\* Drop the properties of record r that are not in keep
Restrict(r, keep) == [f \in DOMAIN r \cap keep |-> r[f]]

\* claims objects: iss and aud, with or without exp, with or without scope
ClaimObjects ==
    {Obj(Restrict([iss |-> i, aud |-> a, exp |-> e, scope |-> s], keep)) :
        i \in Issuers, a \in ClientIds, e \in Times, s \in ScopeStrings,
        keep \in {{"iss", "aud", "exp", "scope"}, {"iss", "aud", "scope"},
                  {"iss", "aud", "exp"}, {"iss", "aud"}}}

\* what a payload segment can parse to
PayloadValues == ClaimObjects \cup {JSNull}

\* what a header segment can parse to
HeaderValues == {Obj([alg |-> "RS256"]), Obj([alg |-> "none"]), Obj(<<>>)}

\* three segments, header and payload of which parse
WellFormedTokens ==
    {<<JsonChunk(h), Dot, JsonChunk(p), Dot, SigChunk(g)>> :
        h \in HeaderValues, p \in PayloadValues, g \in BOOLEAN}

\* segments a malformed token is made of: claims that would pass every check
\* with the default options, claims of another issuer, text that is not JSON,
\* and the empty segment
SampleClaims ==
    {Obj([iss |-> i, aud |-> "c1", exp |-> MaxTime, scope |-> <<"a">>]) :
        i \in Issuers}
SampleSegments ==
    {<<JsonChunk(p)>> : p \in SampleClaims} \cup {<<GarbageChunk>>, <<>>}

RECURSIVE Join(_)
\* segments.join('.')
Join(segs) ==
    IF Len(segs) = 0 THEN <<>>
    ELSE IF Len(segs) = 1 THEN segs[1]
    ELSE segs[1] \o <<Dot>> \o Join(Tail(segs))

\* structured tokens whose segment count is not 3, or whose header or
\* payload segment does not parse
MalformedTokens ==
    {Join(segs) : segs \in UNION {[1..k -> SampleSegments] :
                                     k \in (2..MaxSegments) \ {3}}}
    \cup ({<<h, Dot, p, Dot, SigChunk(TRUE)>> :
             h \in {JsonChunk(Obj([alg |-> "RS256"])), GarbageChunk},
             p \in {JsonChunk(c) : c \in SampleClaims} \cup {GarbageChunk}}
          \ WellFormedTokens)

\* tokens without a '.'
OpaqueTokens == {<<GarbageChunk>>, <<>>}

\* the strings passed as token
TokenStrings == WellFormedTokens \cup MalformedTokens \cup OpaqueTokens

\* the token argument: a string, or undefined
Tokens == {Str(cs) : cs \in TokenStrings} \cup {JSUndefined}

ClientLists == {<<>>, <<"c1">>}

\* options of AccessToken.verify: issuer and key, with or without clients,
\* with or without scope
VerifyOptions ==
    {Restrict([issuer |-> Issuer, key |-> "key", clients |-> c, scope |-> s], keep) :
        c \in ClientLists, s \in ScopeStrings,
        keep \in {{"issuer", "key", "clients", "scope"}, {"issuer", "key", "clients"},
                  {"issuer", "key", "scope"}, {"issuer", "key"}}}

\* bodies of an introspection response that carry an error property
ErrorBodies ==
    {Obj(Restrict([error |-> e, statusCode |-> sc, iss |-> Issuer, aud |-> "c1",
                   exp |-> MaxTime, scope |-> <<"a">>], keep)) :
        e \in {"invalid_token", ""}, sc \in {400, 401},
        keep \in {{"error", "statusCode"},
                  {"error", "statusCode", "iss", "aud", "exp", "scope"}}}

\* what the HTTP layer can hand to the callback of `.end`
Responses ==
    {[err |-> TRUE]}
    \cup {[err |-> FALSE, body |-> b] :
            b \in ClaimObjects \cup ErrorBodies \cup {JSUndefined, JSNull}}

(***************************************************************************)
(* The AnvilConnect client                                                 *)
(***************************************************************************)
\* a string value that may be undefined (options.code, options.token, ...)
Text(t) == [type |-> "string", text |-> t]
\* ToBoolean: false for undefined and for the empty string
TruthyText(v) == v.type = "string" /\ v.text # ""
\* options[f], undefined when the property is absent
Opt(o, f) == IF f \in DOMAIN o THEN Text(o[f]) ELSE JSUndefined
\* a || b
OrElse(a, b) == IF TruthyText(a) THEN a ELSE b

\* elements of words joined by sep: Array.prototype.join
RECURSIVE JoinWith(_, _)
JoinWith(words, sep) ==
    IF Len(words) = 0 THEN <<>>
    ELSE IF Len(words) = 1 THEN <<words[1]>>
    ELSE <<words[1], sep>> \o JoinWith(Tail(words), sep)

\* function AnvilConnect (options): the scope is the defaults followed by
\* the caller's scope; a string of scope values is a sequence of words and
\* separators
AnvilConnect(o) ==
    [issuer |-> o.issuer,
     client_id |-> o.client_id,
     client_secret |-> o.client_secret,
     redirect_uri |-> o.redirect_uri,
     scope |-> IF "scope" \in DOMAIN o
               THEN JoinWith(<<"openid", "profile">> \o o.scope, " ")
               ELSE JoinWith(<<"openid", "profile">>, " ")]

\* options of the constructor; scope, when given, as the list of its values
ConstructorOptions ==
    {[issuer |-> Issuer, client_id |-> "c1", client_secret |-> "s1",
      redirect_uri |-> "https://app.example/cb"]}

\* options of the constructor of the clients on which operations are
\* called: without a scope, or with the scope email
ClientOptions ==
    ConstructorOptions
    \cup {[issuer |-> Issuer, client_id |-> "c1", client_secret |-> "s1",
            redirect_uri |-> "https://app.example/cb", scope |-> <<"email">>]}

SampleConfiguration ==
    Obj([issuer |-> Issuer,
         authorization_endpoint |-> "https://idp.example/authorize",
         token_endpoint |-> "https://idp.example/token",
         userinfo_endpoint |-> "https://idp.example/userinfo",
         jwks_uri |-> "https://idp.example/jwks"])

\* an array value
Arr(items) == [type |-> "array", items |-> items]
\* a JWK: an object with a kid and, or not, a use
Jwk(kid, use) == Obj([kid |-> kid, use |-> use])
JwkNoUse(kid) == Obj([kid |-> kid])

\* JWK sets as getJWKs caches them: the keys and the index by use
SampleJwks ==
    {Obj([keys |-> Arr(<<>>)]),
     Obj([keys |-> Arr(<<Jwk("k1", "sig"), Jwk("k2", "enc")>>),
          sig |-> Jwk("k1", "sig"), enc |-> Jwk("k2", "enc")])}

\* this.jwks.keys[0], named by its kid; undefined when keys is empty or is
\* not an array
FirstKey(j) ==
    IF j.fields.keys.type = "array" /\ Len(j.fields.keys.items) > 0
    THEN j.fields.keys.items[1].fields.kid
    ELSE "undefined"

(***************************************************************************)
(* Promises                                                                *)
(***************************************************************************)
NoPromise == [state |-> "none"]
Pending == [state |-> "pending"]
Resolved(v) == [state |-> "resolved", value |-> v]
RejectedWith(e) == [state |-> "rejected", reason |-> e]
\* resolve/reject: only the first settles the promise
Settle(p, s) == IF p.state = "pending" THEN s ELSE p

\* resolve(v) or reject(e) is invoked on the operation's promise
Invoke(s) ==
    /\ promise' = Settle(promise, s)
    /\ settleCalls' = Append(settleCalls, s)

(***************************************************************************)
(* token(options): the join over the two verifications                     *)
(***************************************************************************)
\* function (err, result) { ... } of token's async.parallel, invoked (once)
\* with the first error of a task
JoinError(err) ==
    IF joined
    THEN UNCHANGED <<joined, promise, settleCalls, data>>
    ELSE /\ joined' = TRUE
         /\ Invoke(RejectedWith(err))
         /\ UNCHANGED data

\* ... or with the results when both tasks have succeeded; res are the
\* results by name
JoinSuccess(res) ==
    IF joined
    THEN UNCHANGED <<joined, promise, settleCalls, data>>
    ELSE LET augmented ==
                 Obj([f \in DOMAIN data.fields \cup {"id_claims", "access_claims"} |->
                         IF f = "id_claims" THEN res.id_claims
                         ELSE IF f = "access_claims" THEN res.access_claims
                         ELSE data.fields[f]])
         IN /\ joined' = TRUE
            /\ data' = augmented
            /\ Invoke(Resolved(augmented))

\* the callback of AccessToken.verify in the access_claims task gets the
\* event e; sync tells whether the `.then` handler is still on the stack, in
\* which case an exception ends up in `.catch`
AccessClaimsDone(e, sync) ==
    /\ UNCHANGED <<client, configuration, jwks, fetches, returned, op, cpc, http, idState, thrown>>
    /\ CASE e.kind = "validated" ->
              /\ accState' = "ok"
              /\ results' = [results EXCEPT !.access_claims = e.claims]
              /\ IF idState = "ok"
                 THEN JoinSuccess(results')
                 ELSE UNCHANGED <<joined, promise, settleCalls, data>>
         [] e.kind = "rejected" ->
              /\ accState' = "failed"
              /\ UNCHANGED results
              /\ JoinError(e.err)
         [] e.kind = "thrown" ->
              /\ accState' = "thrown"
              /\ UNCHANGED <<results, joined, data>>
              /\ IF sync
                 THEN Invoke(RejectedWith(e.err))
                 ELSE UNCHANGED <<promise, settleCalls>>

(***************************************************************************)
(* verify(token, options): the promise around AccessToken.verify           *)
(***************************************************************************)
\* function (err, claims) { ... } in verify; an exception thrown while the
\* promise's executor is on the stack rejects the promise
VerifyDone(e, sync) ==
    /\ UNCHANGED <<client, configuration, jwks, fetches, returned, op, cpc, http, data, idState,
                   accState, results, joined, thrown>>
    /\ CASE e.kind = "validated" -> Invoke(Resolved(e.claims))
         [] e.kind = "rejected" -> Invoke(RejectedWith(e.err))
         [] e.kind = "thrown" ->
              IF sync
              THEN Invoke(RejectedWith(e.err))
              ELSE UNCHANGED <<promise, settleCalls>>

\* what the caller of AccessToken.verify does with the event, if any, that
\* the step added to outcome
Continue(sync) ==
    IF Len(outcome') = Len(outcome) \/ op.name = "none"
    THEN UNCHANGED clientVars
    ELSE IF op.name = "token"
    THEN AccessClaimsDone(outcome'[Len(outcome')], sync)
    ELSE VerifyDone(outcome'[Len(outcome')], sync)

(***************************************************************************)
(* AccessToken.verify(token, options, callback)                            *)
(*                                                                         *)
(* async.parallel starts the tasks `jwt` and `random` in that order, keeps *)
(* their results by name, and invokes the final callback once: with the    *)
(* first error a task reports, or with the results when both have reported.*)
(***************************************************************************)
VerifyIdle ==
    /\ vpc = "idle"
    /\ token = JSUndefined
    /\ options = [issuer |-> Issuer, key |-> "key"]
    /\ jwtRes = JSUndefined
    /\ randomRes = JSUndefined
    /\ finished = FALSE
    /\ outcome = <<>>
    /\ requests = <<>>
    /\ response = [err |-> FALSE, body |-> JSUndefined]
    /\ checks = <<>>
    /\ now = 0

\* no operation has been called on the client
ClientIdle ==
    /\ op = [name |-> "none"]
    /\ cpc = "idle"
    /\ http = <<>>
    /\ data = JSUndefined
    /\ idState = "idle"
    /\ accState = "idle"
    /\ results = [id_claims |-> JSUndefined, access_claims |-> JSUndefined]
    /\ joined = FALSE
    /\ promise = NoPromise
    /\ settleCalls = <<>>
    /\ thrown = JSUndefined
    /\ fetches = <<>>
    /\ returned = JSUndefined

\* AccessToken.verify on its own: a client that is never used
Init ==
    /\ VerifyIdle
    /\ ClientIdle
    /\ client \in {AnvilConnect(o) : o \in ConstructorOptions}
    /\ configuration = JSUndefined
    /\ jwks = JSUndefined

\* AccessToken.verify is called; async.parallel is about to start `jwt`
VerifyCall ==
    /\ vpc = "idle"
    /\ cpc = "idle"
    /\ \E t \in Tokens, o \in VerifyOptions :
           /\ token' = t
           /\ options' = o
    /\ vpc' = "jwt"
    /\ UNCHANGED <<jwtRes, randomRes, finished, outcome, requests, response,
                   checks, now>>
    /\ UNCHANGED clientVars

\* the error of the `jwt` task
InvalidAccessToken ==
    UnauthorizedError([realm |-> "user",
                       error |-> "invalid_token",
                       error_description |-> "Invalid access token",
                       statusCode |-> 401])

\* the final callback runs with (err, result), nowSeconds() returning n
RunFinalCallback(err, result, n) ==
    LET r == FinalCallback(err, result, options, n) IN
    /\ finished' = TRUE
    /\ outcome' = Append(outcome, r.event)
    /\ checks' = r.checks
    /\ now' = n

\* jwt: function (done) { ... }; token.indexOf throws when token is not a
\* string, which ends the call before the `random` task is started
JwtTask ==
    /\ vpc = "jwt"
    /\ vpc' = IF IsStr(token) THEN "random" ELSE "done"
    /\ IF ~IsStr(token)
       THEN /\ outcome' = Append(outcome,
                    Thrown(TypeError("Cannot read property 'indexOf' of undefined")))
            /\ UNCHANGED <<jwtRes, finished, checks, now>>
       ELSE IF DotIndexOf(token) # -1
       THEN LET at == decode(token, options.key) IN
            IF IsError(at)
            THEN /\ RunFinalCallback(InvalidAccessToken,
                                     [jwt |-> JSUndefined, random |-> JSUndefined], now)
                 /\ UNCHANGED jwtRes
            ELSE /\ jwtRes' = at
                 /\ UNCHANGED <<finished, outcome, checks, now>>
       ELSE /\ jwtRes' = JSUndefined
            /\ UNCHANGED <<finished, outcome, checks, now>>
    /\ UNCHANGED <<token, options, randomRes, requests, response>>
    /\ Continue(TRUE)

\* the request of the `random` task falling back to fixed credentials
IntrospectionRequest_DefaultAuth(t, opts) ==
    [method |-> "POST",
     url |-> <<opts.issuer, "/token/verify">>,
     user |-> IF "client_id" \in DOMAIN opts THEN opts.client_id ELSE "c1",
     pass |-> IF "client_secret" \in DOMAIN opts THEN opts.client_secret ELSE "s1",
     body |-> [access_token |-> t]]

\* the request of the `random` task
IntrospectionRequest(t, opts) ==
    [method |-> "POST",
     url |-> <<opts.issuer, "/token/verify">>,
     user |-> IF "client_id" \in DOMAIN opts THEN opts.client_id ELSE "undefined",
     pass |-> IF "client_secret" \in DOMAIN opts THEN opts.client_secret ELSE "undefined",
     body |-> [access_token |-> t]]

\* random: function (done) { ... }, up to the point where the request is
\* sent or done() is called
RandomTask ==
    /\ vpc = "random"
    /\ IF DotIndexOf(token) = -1
       THEN /\ requests' = Append(requests, IntrospectionRequest(token, options))
            /\ vpc' = "waiting"
            /\ UNCHANGED <<randomRes, finished, outcome, checks, now>>
       ELSE /\ vpc' = "done"
            /\ randomRes' = JSUndefined
            /\ UNCHANGED requests
            /\ IF finished
               THEN UNCHANGED <<finished, outcome, checks, now>>
               ELSE \E n \in Times :
                        RunFinalCallback(JSUndefined,
                                         [jwt |-> jwtRes, random |-> JSUndefined], n)
    /\ UNCHANGED <<token, options, jwtRes, response>>
    /\ Continue(TRUE)

\* the error test looking only at the presence of the property
BodyHasError_AnyErrorProperty(body) == TruthyValue(body) /\ Has(body, "error")

\* response.body && response.body.error
BodyHasError(body) ==
    TruthyValue(body) /\ Has(body, "error") /\ Get(body, "error") # ""

\* .end(function (err, response) { ... }), for the response r
HandleResponse(r) ==
    IF r.err
    THEN /\ RunFinalCallback(TransportError,
                             [jwt |-> jwtRes, random |-> JSUndefined], now)
         /\ UNCHANGED randomRes
    ELSE IF BodyHasError(r.body)
    THEN /\ RunFinalCallback(UnauthorizedError(r.body.fields),
                             [jwt |-> jwtRes, random |-> JSUndefined], now)
         /\ UNCHANGED randomRes
    ELSE /\ randomRes' = r.body
         /\ \E n \in Times :
                RunFinalCallback(JSUndefined, [jwt |-> jwtRes, random |-> r.body], n)

\* the HTTP layer answers the introspection request
Response ==
    /\ vpc = "waiting"
    /\ vpc' = "done"
    /\ \E r \in Responses :
           /\ response' = r
           /\ HandleResponse(r)
    /\ UNCHANGED <<token, options, jwtRes, requests>>
    /\ Continue(FALSE)

(***************************************************************************)
(* Operations of the client: token, userInfo, verify                       *)
(***************************************************************************)
\* a URI: its text is non-empty; query is what url.parse gives, null when
\* the URI has no '?', else the list of the <<name, value>> pairs
Uri(query) == [type |-> "string", text |-> "uri", query |-> query]
EmptyUri == [type |-> "string", text |-> ""]

\* qs.parse(query): an object with a property for each name
QsParse(q) ==
    IF q = JSNull
    THEN <<>>
    ELSE [k \in {q.pairs[i][1] : i \in 1..Len(q.pairs)} |->
            (CHOOSE pr \in {q.pairs[i] : i \in 1..Len(q.pairs)} : pr[1] = k)[2]]
Query(pairs) == [type |-> "query", pairs |-> pairs]

\* the authorization code token() works with
ResolveCode(o) ==
    LET code == Opt(o, "code") IN
    IF ~TruthyText(code) /\ "responseUri" \in DOMAIN o /\ TruthyText(o.responseUri)
    THEN LET parsed == QsParse(o.responseUri.query) IN
         IF "code" \in DOMAIN parsed THEN Text(parsed.code) ELSE JSUndefined
    ELSE code

\* the test of the code, looking for undefined only
MissingCode_UndefinedOnly(o) == ResolveCode(o) = JSUndefined

\* !code
MissingCode(o) == ~TruthyText(ResolveCode(o))

ResponseUris ==
    {EmptyUri, Uri(JSNull), Uri(Query(<<<<"code", "">>>>)),
     Uri(Query(<<<<"state", "xyz">>, <<"code", "abc">>>>))}

TokenOptions ==
    {Restrict([code |-> c, responseUri |-> u], keep) :
        c \in {"", "abc"}, u \in ResponseUris,
        keep \in {{"code", "responseUri"}, {"code"}, {"responseUri"}, {}}}

\* the request token() sends to the token endpoint
TokenRequest(o, code) ==
    [url |-> configuration.fields.token_endpoint,
     method |-> "POST",
     form |-> [grant_type |-> OrElse(Opt(o, "grant_type"), Text("authorization_code")).text,
               code |-> code.text,
               redirect_uri |-> OrElse(Opt(o, "redirect_uri"),
                                       Text(client.redirect_uri)).text],
     user |-> client.client_id,
     pass |-> client.client_secret]

\* token(options), up to the point where the request is sent
TokenCall ==
    /\ cpc = "idle"
    /\ vpc = "idle"
    /\ \E o \in TokenOptions :
        /\ op' = [name |-> "token", options |-> o]
        /\ IF ~IsObj(configuration)
           THEN \* this.configuration.token_endpoint
                /\ thrown' = TypeError("Cannot read property 'token_endpoint' of undefined")
                /\ cpc' = "done"
                /\ UNCHANGED <<http, promise, settleCalls>>
           ELSE IF MissingCode(o)
           THEN /\ promise' = Settle(Pending, RejectedWith(JSError("Missing authorization code")))
                /\ settleCalls' = Append(settleCalls,
                                         RejectedWith(JSError("Missing authorization code")))
                /\ cpc' = "done"
                /\ UNCHANGED <<http, thrown>>
           ELSE /\ promise' = Pending
                /\ http' = Append(http, TokenRequest(o, ResolveCode(o)))
                /\ cpc' = "tokenWait"
                /\ UNCHANGED <<settleCalls, thrown>>
    /\ UNCHANGED <<client, configuration, jwks, fetches, returned, data, idState, accState, results, joined>>
    /\ UNCHANGED verifyVars

\* access tokens a token response carries
ExchangeTokens ==
    {Str(<<JsonChunk(Obj([alg |-> "RS256"])), Dot, JsonChunk(p), Dot, SigChunk(TRUE)>>) :
        p \in PayloadValues}
    \cup {Str(<<GarbageChunk>>), Str(<<GarbageChunk, Dot, GarbageChunk>>)}

\* what the HTTP layer can answer to the token request: a failure, or a
\* JSON object with an id_token and, or not, an access_token
TokenResponses ==
    {[err |-> TRUE]}
    \cup {[err |-> FALSE, body |-> Obj([id_token |-> "id.token", access_token |-> t])] :
            t \in ExchangeTokens}
    \cup {[err |-> FALSE, body |-> Obj([id_token |-> "id.token"])]}

\* .then(function (data) { async.parallel(...) }) and .catch of token():
\* both tasks are started, the access_claims task calling AccessToken.verify;
\* reading this.jwks.keys throws when no JWK set is cached
HandleTokenResponse(r) ==
    IF r.err
    THEN /\ Invoke(RejectedWith(TransportError))
         /\ cpc' = "done"
         /\ UNCHANGED <<data, idState, accState>>
         /\ UNCHANGED verifyVars
    ELSE IF ~IsObj(jwks)
    THEN /\ Invoke(RejectedWith(TypeError("Cannot read property 'keys' of undefined")))
         /\ cpc' = "done"
         /\ data' = r.body
         /\ UNCHANGED <<idState, accState>>
         /\ UNCHANGED verifyVars
    ELSE /\ data' = r.body
         /\ idState' = "pending"
         /\ accState' = "pending"
         /\ cpc' = "verifying"
         /\ UNCHANGED <<promise, settleCalls>>
         /\ vpc' = "jwt"
         /\ token' = IF "access_token" \in DOMAIN r.body.fields
                     THEN r.body.fields.access_token
                     ELSE JSUndefined
         /\ options' = [key |-> FirstKey(jwks), issuer |-> client.issuer]
         /\ UNCHANGED <<jwtRes, randomRes, finished, outcome, requests, response,
                        checks, now>>

\* the token endpoint answers
TokenResponse ==
    /\ cpc = "tokenWait"
    /\ \E r \in TokenResponses : HandleTokenResponse(r)
    /\ UNCHANGED <<client, configuration, jwks, fetches, returned, op, http, results, joined, thrown>>

\* what IDToken.verify hands to its callback
IdTokenPayload == Obj([iss |-> Issuer, aud |-> "c1", sub |-> "user1"])
IdTokenError == [type |-> "IDTokenError"]

\* function (err, token) { ... } of the id_claims task: IDToken.verify
\* reports, at some point after it was called
IdVerifyDone ==
    /\ idState = "pending"
    /\ \E ok \in BOOLEAN :
        IF ok
        THEN /\ idState' = "ok"
             /\ results' = [results EXCEPT !.id_claims = IdTokenPayload]
             /\ IF accState = "ok"
                THEN JoinSuccess(results')
                ELSE UNCHANGED <<joined, promise, settleCalls, data>>
        ELSE /\ idState' = "failed"
             /\ UNCHANGED results
             /\ JoinError(IdTokenError)
    /\ UNCHANGED <<client, configuration, jwks, fetches, returned, op, cpc, http, accState, thrown>>
    /\ UNCHANGED verifyVars

UserInfoOptions == {<<>>, [token |-> ""], [token |-> "at1"]}

\* userInfo(options), up to the point where the request is sent
UserInfoCall ==
    /\ cpc = "idle"
    /\ vpc = "idle"
    /\ \E o \in UserInfoOptions :
        /\ op' = [name |-> "userInfo", options |-> o]
        /\ IF ~IsObj(configuration)
           THEN /\ thrown' = TypeError("Cannot read property 'userinfo_endpoint' of undefined")
                /\ cpc' = "done"
                /\ UNCHANGED <<http, promise, settleCalls>>
           ELSE IF ~TruthyText(Opt(o, "token"))
           THEN /\ promise' = Settle(Pending, RejectedWith(JSError("Missing access token")))
                /\ settleCalls' = Append(settleCalls,
                                         RejectedWith(JSError("Missing access token")))
                /\ cpc' = "done"
                /\ UNCHANGED <<http, thrown>>
           ELSE /\ promise' = Pending
                /\ http' = Append(http,
                        [url |-> configuration.fields.userinfo_endpoint,
                         method |-> "GET",
                         authorization |-> <<"Bearer ", o.token>>])
                /\ cpc' = "userInfoWait"
                /\ UNCHANGED <<settleCalls, thrown>>
    /\ UNCHANGED <<client, configuration, jwks, fetches, returned, data, idState, accState, results, joined>>
    /\ UNCHANGED verifyVars

UserInfoResponses ==
    {[err |-> TRUE], [err |-> FALSE, body |-> Obj([sub |-> "user1"])]}

\* the userinfo endpoint answers
UserInfoResponse ==
    /\ cpc = "userInfoWait"
    /\ cpc' = "done"
    /\ \E r \in UserInfoResponses :
        IF r.err
        THEN Invoke(RejectedWith(TransportError))
        ELSE Invoke(Resolved(r.body))
    /\ UNCHANGED <<client, configuration, jwks, fetches, returned, op, http, data, idState, accState,
                   results, joined, thrown>>
    /\ UNCHANGED verifyVars

\* structured tokens whose claims carry the scope values of the client's
\* default scope, in this or another order, and an audience that is not
\* the client
DefaultScopeTokens ==
    {Str(<<JsonChunk(Obj([alg |-> "RS256"])), Dot,
           JsonChunk(Obj([iss |-> Issuer, aud |-> "c2", exp |-> MaxTime, scope |-> sc])),
           Dot, SigChunk(TRUE)>>) :
        sc \in {<<"openid", " ", "profile">>, <<"profile", " ", "openid">>,
                <<"openid", " ", "profile", " ", "email">>}}

\* tokens passed to verify: those of a token response, those above, the
\* empty string, or nothing at all
ClientVerifyTokens ==
    ExchangeTokens \cup DefaultScopeTokens \cup {Str(<<>>), JSUndefined}

\* options passed to verify
ClientVerifyOptions ==
    {<<>>, [scope |-> <<"a">>], [scope |-> <<"a">>, clients |-> <<"c1">>],
     [key |-> "key", scope |-> <<>>]}

\* the defaults of verify with the client's client_id as the accepted
\* audience
VerifyDefaults_OwnAudience(o) ==
    [f \in DOMAIN o \cup {"issuer", "client_id", "client_secret", "scope", "key",
                          "clients"} |->
        CASE f = "issuer" -> OrElse(Opt(o, "issuer"), Text(client.issuer)).text
          [] f = "client_id" -> OrElse(Opt(o, "client_id"), Text(client.client_id)).text
          [] f = "client_secret" ->
                OrElse(Opt(o, "client_secret"), Text(client.client_secret)).text
          [] f = "scope" -> IF "scope" \in DOMAIN o /\ TruthyStr(o.scope)
                            THEN o.scope ELSE client.scope
          [] f = "key" -> IF TruthyText(Opt(o, "key")) THEN o.key
                          ELSE IF "sig" \in DOMAIN jwks.fields
                               THEN jwks.fields.sig.fields.kid
                          ELSE "undefined"
          [] f = "clients" -> IF "clients" \in DOMAIN o THEN o.clients
                              ELSE <<client.client_id>>
          [] OTHER -> o[f]]

\* options after the defaults of verify have been filled in
VerifyDefaults(o) ==
    [f \in DOMAIN o \cup {"issuer", "client_id", "client_secret", "scope", "key"} |->
        CASE f = "issuer" -> OrElse(Opt(o, "issuer"), Text(client.issuer)).text
          [] f = "client_id" -> OrElse(Opt(o, "client_id"), Text(client.client_id)).text
          [] f = "client_secret" ->
                OrElse(Opt(o, "client_secret"), Text(client.client_secret)).text
          [] f = "scope" -> IF "scope" \in DOMAIN o /\ TruthyStr(o.scope)
                            THEN o.scope ELSE client.scope
          [] f = "key" -> IF TruthyText(Opt(o, "key")) THEN o.key
                          ELSE IF "sig" \in DOMAIN jwks.fields
                               THEN jwks.fields.sig.fields.kid
                          ELSE "undefined"
          [] OTHER -> o[f]]

\* verify(token, options): the defaults, then AccessToken.verify inside a
\* new promise; reading this.jwks.sig throws when no key is passed and no
\* JWK set is cached
ClientVerify ==
    /\ cpc = "idle"
    /\ vpc = "idle"
    /\ \E t \in ClientVerifyTokens, o \in ClientVerifyOptions :
        /\ op' = [name |-> "verify", token |-> t, options |-> o]
        /\ IF ~TruthyText(Opt(o, "key")) /\ ~IsObj(jwks)
           THEN /\ thrown' = TypeError("Cannot read property 'sig' of undefined")
                /\ cpc' = "done"
                /\ UNCHANGED <<promise, vpc, token, options>>
           ELSE /\ promise' = Pending
                /\ cpc' = "verifying"
                /\ vpc' = "jwt"
                /\ token' = t
                /\ options' = VerifyDefaults(o)
                /\ UNCHANGED thrown
    /\ UNCHANGED <<client, configuration, jwks, fetches, returned, http, data, idState, accState,
                   results, joined, settleCalls>>
    /\ UNCHANGED <<jwtRes, randomRes, finished, outcome, requests, response,
                   checks, now>>

(***************************************************************************)
(* discover() and getJWKs()                                                *)
(*                                                                         *)
(* Each call is recorded in fetches with the request it sent, the promise  *)
(* it returned and what it threw; calls by different callers may be in     *)
(* flight together and are answered in any order.                          *)
(***************************************************************************)
\* the callers that may have a discover or getJWKs call in flight
Callers == {"a", "b"}

Num(n) == [type |-> "number", value |-> n]
\* typeof v === 'object'
TypeofObject(v) == v.type \in {"object", "null", "array"}

\* a second provider configuration, without a userinfo endpoint
OtherConfiguration ==
    Obj([issuer |-> Issuer,
         authorization_endpoint |-> "https://idp.example/v2/authorize",
         token_endpoint |-> "https://idp.example/v2/token",
         jwks_uri |-> "https://idp.example/v2/jwks"])

\* what the HTTP layer can answer to the discovery request: a failure, or
\* the parsed body (json: true): an object, null, a number, or the text of a
\* body that is not JSON
DiscoveryResponses ==
    {[err |-> TRUE]}
    \cup {[err |-> FALSE, body |-> b] :
            b \in {SampleConfiguration, OtherConfiguration, JSNull,
                   Num(0), Text("<html>")}}

\* a call as fetches records it
FetchCall(kind, request, p, exc) ==
    [kind |-> kind, request |-> request, promise |-> p, thrown |-> exc,
     answer |-> JSUndefined]

\* the request of call i was answered with r, and its promise is settled
\* with s, unless it is already
SettleFetch(i, r, s) ==
    fetches' = [fetches EXCEPT ![i].promise = Settle(@, s), ![i].answer = r]

\* discover(), up to the point where the request is sent
DiscoverCall ==
    /\ cpc \in {"idle", "fetching"}
    /\ vpc = "idle"
    /\ Len(fetches) < Cardinality(Callers)
    /\ LET request == [url |-> <<client.issuer, ".well-known/openid-configuration">>,
                       method |-> "GET"]
       IN /\ fetches' = Append(fetches, FetchCall("discover", request, Pending, JSUndefined))
          /\ http' = Append(http, request)
    /\ op' = [name |-> "discover"]
    /\ cpc' = "fetching"
    /\ UNCHANGED <<client, configuration, jwks, returned, data, idState, accState,
                   results, joined, promise, settleCalls, thrown>>
    /\ UNCHANGED verifyVars

\* typeof data === 'object'
StoresConfiguration(b) == TypeofObject(b)

\* the handlers of discover dropping the cached configuration when the
\* request fails
HandleDiscovery_ClearsOnError(i, r) ==
    IF r.err
    THEN /\ SettleFetch(i, r, RejectedWith(TransportError))
         /\ configuration' = JSUndefined
    ELSE IF TypeofObject(r.body)
    THEN /\ configuration' = r.body
         /\ SettleFetch(i, r, Resolved(r.body))
    ELSE /\ SettleFetch(i, r, RejectedWith(
                JSError("Unable to retrieve OpenID Connect configuration")))
         /\ UNCHANGED configuration

\* .then(function (data) {...}) and .catch of discover for call i
HandleDiscovery(i, r) ==
    IF r.err
    THEN /\ SettleFetch(i, r, RejectedWith(TransportError))
         /\ UNCHANGED configuration
    ELSE IF StoresConfiguration(r.body)
    THEN /\ configuration' = r.body
         /\ SettleFetch(i, r, Resolved(r.body))
    ELSE /\ SettleFetch(i, r, RejectedWith(
                JSError("Unable to retrieve OpenID Connect configuration")))
         /\ UNCHANGED configuration

\* the discovery request of some call is answered
DiscoverResponse ==
    /\ cpc = "fetching"
    /\ \E i \in 1..Len(fetches) :
        /\ fetches[i].kind = "discover"
        /\ fetches[i].promise = Pending
        /\ \E r \in DiscoveryResponses : HandleDiscovery(i, r)
    /\ UNCHANGED <<client, jwks, returned, op, cpc, http, data, idState, accState,
                   results, joined, promise, settleCalls, thrown>>
    /\ UNCHANGED verifyVars

\* the keys a JWKS document may list: two signing keys, an encryption key,
\* a key whose use is the word keys, and a key without a use
KeyPool ==
    {Jwk("k1", "sig"), Jwk("k2", "enc"), Jwk("k3", "sig"), Jwk("k4", "keys"),
     JwkNoUse("k5")}

\* lists of at most MaxKeys keys
KeyLists == UNION {[1..n -> KeyPool] : n \in 0..MaxKeys}

\* what the HTTP layer can answer to the JWKS request: a failure, a document
\* {keys: [...]}, an object without keys, or null
JwksResponses ==
    {[err |-> TRUE]}
    \cup {[err |-> FALSE, body |-> Obj([keys |-> Arr(ks)])] : ks \in KeyLists}
    \cup {[err |-> FALSE, body |-> b] : b \in {Obj([error |-> Text("not_found")]), JSNull}}

\* data[name] = value
SetProperty(d, name, value) ==
    Obj([f \in DOMAIN d.fields \cup {name} |-> IF f = name THEN value ELSE d.fields[f]])

\* jwk.use as a property name
UseOf(jwk) == IF "use" \in DOMAIN jwk.fields THEN jwk.fields.use ELSE "undefined"

\* the index left with an entry for the first key only
IndexByUse_FirstOnly(d, ks) ==
    IF Len(ks) = 0 THEN d ELSE SetProperty(d, UseOf(Head(ks)), Head(ks))

\* data.keys.forEach(function (jwk) { data[jwk.use] = jwk }), over the
\* elements ks of the array being iterated
RECURSIVE IndexByUse(_, _)
IndexByUse(d, ks) ==
    IF Len(ks) = 0 THEN d
    ELSE IndexByUse(SetProperty(d, UseOf(Head(ks)), Head(ks)), Tail(ks))

\* data.keys.forEach can be called
HasKeys(b) == IsObj(b) /\ "keys" \in DOMAIN b.fields /\ b.fields.keys.type = "array"

\* getJWKs(), up to the point where the request is sent; reading
\* this.configuration.jwks_uri throws when no configuration is cached
GetJWKsCall ==
    /\ cpc \in {"idle", "fetching"}
    /\ vpc = "idle"
    /\ Len(fetches) < Cardinality(Callers)
    /\ IF ~IsObj(configuration)
       THEN /\ fetches' = Append(fetches,
                    FetchCall("getJWKs", JSUndefined, NoPromise,
                              TypeError("Cannot read property 'jwks_uri' of undefined")))
            /\ UNCHANGED http
       ELSE LET request == [url |-> configuration.fields.jwks_uri, method |-> "GET"]
            IN /\ fetches' = Append(fetches,
                        FetchCall("getJWKs", request, Pending, JSUndefined))
               /\ http' = Append(http, request)
    /\ op' = [name |-> "getJWKs"]
    /\ cpc' = "fetching"
    /\ UNCHANGED <<client, configuration, jwks, returned, data, idState, accState,
                   results, joined, promise, settleCalls, thrown>>
    /\ UNCHANGED verifyVars

\* .then(function (data) {...}) and .catch of getJWKs for call i
HandleJwks(i, r) ==
    IF r.err
    THEN /\ SettleFetch(i, r, RejectedWith(TransportError))
         /\ UNCHANGED jwks
    ELSE IF ~HasKeys(r.body)
    THEN /\ SettleFetch(i, r, RejectedWith(
                TypeError("Cannot read property 'forEach' of undefined")))
         /\ UNCHANGED jwks
    ELSE LET indexed == IndexByUse(r.body, r.body.fields.keys.items)
         IN /\ jwks' = indexed
            /\ SettleFetch(i, r, Resolved(indexed))

\* the JWKS request of some call is answered
GetJWKsResponse ==
    /\ cpc = "fetching"
    /\ \E i \in 1..Len(fetches) :
        /\ fetches[i].kind = "getJWKs"
        /\ fetches[i].promise = Pending
        /\ \E r \in JwksResponses : HandleJwks(i, r)
    /\ UNCHANGED <<client, configuration, returned, op, cpc, http, data, idState,
                   accState, results, joined, promise, settleCalls, thrown>>
    /\ UNCHANGED verifyVars

(***************************************************************************)
(* authorizationParams(options) and authorizationUri(options)              *)
(***************************************************************************)
\* the optional request params, in the order of the source
optionalParameters ==
    <<"email", "password", "provider", "state", "response_mode", "nonce",
      "display", "prompt", "max_age", "ui_locales", "id_token_hint",
      "login_hint", "acr_values">>

\* the names in a sequence of names
Names(seq) == {seq[i] : i \in 1..Len(seq)}

\* options || {}: the properties of options
OrEmpty(o) == IF IsObj(o) THEN o.fields ELSE <<>>

\* this.scope as a string value: the words of the client's scope
ScopeText(words) == [type |-> "string", words |-> words]

\* the essential request params
EssentialParams(f) ==
    [response_type |-> OrElse(Opt(f, "response_type"), Text("code")),
     client_id |-> Text(client.client_id),
     redirect_uri |-> OrElse(Opt(f, "redirect_uri"), Text(client.redirect_uri)),
     scope |-> OrElse(Opt(f, "scope"), ScopeText(client.scope))]

\* authorizationParams copying every property of the options
authorizationParams_CopyAll(o) ==
    LET f == OrEmpty(o)
        essential == EssentialParams(f)
    IN Obj([k \in DOMAIN essential \cup DOMAIN f |->
               IF k \in DOMAIN essential THEN essential[k] ELSE Text(f[k])])

\* function authorizationParams (options)
authorizationParams(o) ==
    LET f == OrEmpty(o)
        essential == EssentialParams(f)
        copied == {p \in Names(optionalParameters) : TruthyText(Opt(f, p))}
    IN Obj([k \in DOMAIN essential \cup copied |->
               IF k \in DOMAIN essential THEN essential[k] ELSE Text(f[k])])

\* values a caller gives to a request param: the empty string or some text
ParamValues == {"", "x"}
\* the params a caller's options range over: the essential ones, client_id,
\* three of the allow-list, and two that are not request params
ParamNames ==
    {"response_type", "redirect_uri", "scope", "client_id", "email", "state",
     "acr_values", "endpoint", "foo"}

\* options of authorizationParams: nothing, or an object with up to two of
\* these properties
ParamOptions ==
    {JSUndefined}
    \cup {Obj(Restrict([k \in ParamNames |-> IF k = a THEN va ELSE vb], {a, b})) :
            a \in ParamNames, b \in ParamNames, va \in ParamValues, vb \in ParamValues}

\* authorizationParams(options), called on its own
AuthorizationParamsCall ==
    /\ cpc = "idle"
    /\ vpc = "idle"
    /\ \E o \in ParamOptions :
        /\ op' = [name |-> "authorizationParams", options |-> o]
        /\ returned' = authorizationParams(o)
    /\ cpc' = "done"
    /\ UNCHANGED <<client, configuration, jwks, fetches, http, data, idState, accState,
                   results, joined, promise, settleCalls, thrown>>
    /\ UNCHANGED verifyVars

\* options of authorizationUri: nothing, null, the endpoint as a string, or
\* an object
UriOptions ==
    {JSUndefined, JSNull, Text("signin"),
     Obj([endpoint |-> "connect/google", state |-> "x"]), Obj([state |-> "x"])}

\* the endpoint authorizationUri puts in the path
Endpoint(o) ==
    IF o.type = "string" THEN o
    ELSE IF TypeofObject(o) THEN Opt(o.fields, "endpoint")
    ELSE Text("authorize")

\* authorizationUri(options): reading this.configuration.authorization_endpoint
\* throws when no configuration is cached, and reading options.endpoint
\* throws when options is null
AuthorizationUriCall ==
    /\ cpc = "idle"
    /\ vpc = "idle"
    /\ \E o \in UriOptions :
        /\ op' = [name |-> "authorizationUri", options |-> o]
        /\ IF ~IsObj(configuration)
           THEN /\ thrown' = TypeError(
                        "Cannot read property 'authorization_endpoint' of undefined")
                /\ UNCHANGED returned
           ELSE IF o = JSNull
           THEN /\ thrown' = TypeError("Cannot read property 'endpoint' of null")
                /\ UNCHANGED returned
           ELSE /\ returned' =
                      [type |-> "uri",
                       endpoint |-> configuration.fields.authorization_endpoint,
                       pathname |-> Endpoint(o),
                       query |-> authorizationParams(IF IsObj(o) THEN o ELSE Obj(<<>>))]
                /\ UNCHANGED thrown
    /\ cpc' = "done"
    /\ UNCHANGED <<client, configuration, jwks, fetches, http, data, idState, accState,
                   results, joined, promise, settleCalls>>
    /\ UNCHANGED verifyVars

\* a client on which discover and getJWKs have, or have not, succeeded;
\* getJWKs needs the configuration, so a cached JWK set implies a cached
\* configuration
ClientInit ==
    /\ VerifyIdle
    /\ ClientIdle
    /\ client \in {AnvilConnect(o) : o \in ClientOptions}
    /\ configuration \in {JSUndefined, SampleConfiguration}
    /\ jwks \in {JSUndefined} \cup SampleJwks
    /\ IsObj(jwks) => IsObj(configuration)

ClientNext ==
    \/ TokenCall
    \/ TokenResponse
    \/ IdVerifyDone
    \/ UserInfoCall
    \/ UserInfoResponse
    \/ ClientVerify
    \/ DiscoverCall
    \/ DiscoverResponse
    \/ GetJWKsCall
    \/ GetJWKsResponse
    \/ AuthorizationParamsCall
    \/ AuthorizationUriCall
    \/ JwtTask
    \/ RandomTask
    \/ Response

SpecClient == ClientInit /\ [][ClientNext]_vars

Next ==
    \/ VerifyCall
    \/ JwtTask
    \/ RandomTask
    \/ Response

Spec == Init /\ [][Next]_vars

(***************************************************************************)
(* Properties of AccessToken.verify                                        *)
(***************************************************************************)
\* the token of the call is structured: it contains a '.'
Structured == token.type = "string" /\ \E i \in 1..Len(token.chars) : token.chars[i] = Dot
\* the number of '.' separators of the token
DotCount == Cardinality({i \in 1..Len(token.chars) : token.chars[i] = Dot})
\* the call ended in Validated
IsValidated == \E i \in 1..Len(outcome) : outcome[i].kind = "validated"
\* the final callback got as far as the claim checks
ClaimsResolved == finished /\ Len(checks) > 0
\* the claims the final callback validates
CandidateClaims ==
    IF randomRes.type = "object" THEN randomRes ELSE jwtRes.fields.payload
\* s contains r as a contiguous substring
Contains(s, r) ==
    \E i \in 1..(Len(s) + 1) :
        /\ i + Len(r) - 1 <= Len(s)
        /\ SubSeq(s, i, i + Len(r) - 1) = r
\* the 403 error of a failed claim check
Error403(code, description) ==
    [type |-> "UnauthorizedError", error |-> code,
     error_description |-> description, statusCode |-> 403]

\* C1: a structured token is Validated only if its signature segment has
\* been validated against the configured key: a token whose signature does
\* not validate is never Validated.
C1_SignatureValidated ==
    (Structured /\ IsValidated) => Split(token)[3] = <<SigChunk(TRUE)>>

\* C2: a structured token is Validated only if its decoded header declares
\* alg RS256; any other alg, or none, is rejected.
C2_AlgIsRS256 ==
    (Structured /\ IsValidated) =>
        LET header == Split(token)[1][1].value IN
        /\ header.type = "object"
        /\ "alg" \in DOMAIN header.fields
        /\ header.fields.alg = "RS256"

\* C3: whenever verify ends in Validated, from either path, claims.iss
\* equals options.issuer, claims.aud is a member of options.clients when
\* clients is configured, and claims.scope contains options.scope when a
\* scope is configured (a non-empty string).
C3_ValidatedClaimsMeetPolicy ==
    \A i \in 1..Len(outcome) :
        outcome[i].kind = "validated" =>
            LET c == outcome[i].claims.fields IN
            /\ "iss" \in DOMAIN c /\ c.iss = options.issuer
            /\ "clients" \in DOMAIN options =>
                   /\ "aud" \in DOMAIN c
                   /\ \E k \in 1..Len(options.clients) : options.clients[k] = c.aud
            /\ ("scope" \in DOMAIN options /\ options.scope # <<>>) =>
                   /\ "scope" \in DOMAIN c
                   /\ Contains(c.scope, options.scope)

\* C3 witness: claims obtained by introspection are Validated under a
\* policy that configures both clients and a required scope
C3_Witness ==
    /\ IsValidated
    /\ ~Structured
    /\ "clients" \in DOMAIN options
    /\ "scope" \in DOMAIN options /\ options.scope # <<>>

\* C4: whenever verify ends in Validated, the claims carry an exp that is
\* >= the current time; claims without exp are rejected.
C4_ValidatedNotExpired ==
    \A i \in 1..Len(outcome) :
        outcome[i].kind = "validated" =>
            LET c == outcome[i].claims.fields IN
            "exp" \in DOMAIN c /\ c.exp >= now

\* which checks the candidate claims c fail
FailsIssuer(c) == ~("iss" \in DOMAIN c /\ c.iss = options.issuer)
FailsAudience(c) ==
    /\ "clients" \in DOMAIN options
    /\ ~("aud" \in DOMAIN c /\ \E k \in 1..Len(options.clients) : options.clients[k] = c.aud)
FailsExpiry(c) == "exp" \in DOMAIN c /\ c.exp < now
FailsScope(c) ==
    /\ "scope" \in DOMAIN options /\ options.scope # <<>>
    /\ "scope" \in DOMAIN c
    /\ ~Contains(c.scope, options.scope)

\* C5: claim validation is ordered issuer, audience, expiry, scope and
\* fail-fast: the single error delivered is that of the earliest failing
\* check, and the checks evaluated stop at it.
C5_FirstFailureWins ==
    (ClaimsResolved /\ CandidateClaims.type = "object") =>
        LET c == CandidateClaims.fields IN
        /\ FailsIssuer(c) =>
              /\ outcome = <<Rejected(Error403("invalid_token", "Mismatching issuer"))>>
              /\ checks[Len(checks)] = "issuer"
        /\ (~FailsIssuer(c) /\ FailsAudience(c)) =>
              /\ outcome = <<Rejected(Error403("invalid_token", "Mismatching audience"))>>
              /\ checks[Len(checks)] = "audience"
        /\ (~FailsIssuer(c) /\ ~FailsAudience(c) /\ FailsExpiry(c)) =>
              /\ outcome = <<Rejected(Error403("invalid_token", "Expired access token"))>>
              /\ checks[Len(checks)] = "expiry"
        /\ (~FailsIssuer(c) /\ ~FailsAudience(c) /\ ~FailsExpiry(c) /\ FailsScope(c)) =>
              /\ outcome = <<Rejected(Error403("insufficient_scope", "Insufficient scope"))>>
              /\ checks[Len(checks)] = "scope"

\* C5 witness: audience, expiry and scope all fail and the audience error
\* is the one delivered
C5_Witness ==
    /\ ClaimsResolved /\ CandidateClaims.type = "object"
    /\ ~FailsIssuer(CandidateClaims.fields)
    /\ FailsAudience(CandidateClaims.fields)
    /\ FailsExpiry(CandidateClaims.fields)
    /\ FailsScope(CandidateClaims.fields)
    /\ outcome = <<Rejected(Error403("invalid_token", "Mismatching audience"))>>

\* C6: candidate claims whose exp is strictly less than the current time
\* are rejected with invalid_token / 403, whatever iss, aud, scope and the
\* clients/scope policy are.
C6_ExpiredIsInvalidToken ==
    (/\ ClaimsResolved /\ CandidateClaims.type = "object"
     /\ "exp" \in DOMAIN CandidateClaims.fields
     /\ CandidateClaims.fields.exp < now) =>
        /\ Len(outcome) = 1
        /\ outcome[1].kind = "rejected"
        /\ outcome[1].err.error = "invalid_token"
        /\ outcome[1].err.statusCode = 403

\* C6 witness: expired claims with the right issuer and audience whose
\* scope is insufficient as well
C6_Witness ==
    /\ ClaimsResolved /\ CandidateClaims.type = "object"
    /\ ~FailsIssuer(CandidateClaims.fields)
    /\ ~FailsAudience(CandidateClaims.fields)
    /\ FailsExpiry(CandidateClaims.fields)
    /\ FailsScope(CandidateClaims.fields)
    /\ Len(outcome) = 1 /\ outcome[1].kind = "rejected"

\* the token is structured and malformed: it does not have exactly two '.'
\* separators, or its header or payload segment does not decode
Malformed ==
    /\ Structured
    /\ \/ DotCount # 2
       \/ \E k \in {1, 2} :
             ~(Len(Split(token)[k]) = 1 /\ Split(token)[k][1].text = "json")

\* C7: a malformed structured token is rejected with the 401 error
\* {realm user, invalid_token, Invalid access token}; no claim check is
\* attempted and no introspection request is sent.
C7_MalformedRejected401 ==
    Malformed =>
        /\ requests = <<>>
        /\ checks = <<>>
        /\ vpc \in {"random", "done"} =>
              outcome = <<Rejected([type |-> "UnauthorizedError", realm |-> "user",
                                    error |-> "invalid_token",
                                    error_description |-> "Invalid access token",
                                    statusCode |-> 401])>>

\* C7 witness: a token of more than three segments whose header and payload
\* segments decode, with claims of another issuer, has been rejected
C7_Witness ==
    /\ Structured /\ DotCount > 2
    /\ \A k \in {1, 2} : Len(Split(token)[k]) = 1 /\ Split(token)[k][1].text = "json"
    /\ Split(token)[2][1].value.fields.iss # options.issuer
    /\ vpc = "done"
    /\ Len(outcome) = 1 /\ outcome[1].kind = "rejected"

\* the introspection response of an opaque token has been handled and its
\* body is an object
IntrospectedObject ==
    /\ token.type = "string" /\ ~Structured
    /\ vpc = "done"
    /\ ~response.err
    /\ response.body.type = "object"

\* the call was rejected with an UnauthorizedError whose error code and
\* status code are those of the response body, and no claim was checked
RejectedFromBody ==
    /\ Len(outcome) = 1
    /\ outcome[1].kind = "rejected"
    /\ outcome[1].err.type = "UnauthorizedError"
    /\ outcome[1].err.error = response.body.fields.error
    /\ outcome[1].err.statusCode = response.body.fields.statusCode
    /\ checks = <<>>

\* the body became the candidate claims and went through the claim checks
\* that structured-token claims go through
BodyValidatedAsClaims ==
    /\ randomRes = response.body
    /\ ClaimsResolved
    /\ CandidateClaims = response.body
    /\ outcome = <<CheckClaims(response.body, options, now).event>>
    /\ checks = CheckClaims(response.body, options, now).checks

\* C8 (as stated): on the opaque path a response body that contains an
\* error field is rejected with an UnauthorizedError built from that body
\* and no claim validation is performed; only a body without an error field
\* becomes the candidate claims.
C8_ErrorFieldRejects ==
    (IntrospectedObject /\ "error" \in DOMAIN response.body.fields)
        => RejectedFromBody

\* C8 (amended): a response body whose error field is non-empty (truthy) is
\* rejected with an UnauthorizedError built from that body, without claim
\* validation; a body without an error field, or with an empty one, becomes
\* the candidate claims and goes through the issuer, audience, expiry and
\* scope checks.
C8_TruthyErrorRejects ==
    IntrospectedObject =>
        IF "error" \in DOMAIN response.body.fields /\ response.body.fields.error # ""
        THEN RejectedFromBody
        ELSE BodyValidatedAsClaims

\* C8 witness: a body that carries an error code together with claims that
\* would pass every check has been rejected with the body's status code
C8_Witness ==
    /\ IntrospectedObject
    /\ "error" \in DOMAIN response.body.fields
    /\ response.body.fields.error = "invalid_token"
    /\ "iss" \in DOMAIN response.body.fields
    /\ RejectedFromBody
    /\ outcome[1].err.statusCode = 401

(***************************************************************************)
(* Properties of the client's operations                                   *)
(***************************************************************************)
\* token() got a successful response from the token endpoint
TokenResponded == op.name = "token" /\ data.type = "object"
\* a task has reported to its callback
Completed(st) == st \in {"ok", "failed"}
\* the body of the token response, as it was received
OriginalResponse(v) ==
    [f \in DOMAIN v.fields \ {"id_claims", "access_claims"} |-> v.fields[f]]

\* what C9 says of the promise of token(): it resolves only when both
\* verifications succeeded, with the response carrying both claims; it is
\* rejected, with an error of one of the verifications, when one failed; it
\* is settled once both have completed; resolve is never invoked besides
\* another resolve or reject
JoinSettlesPromise ==
    /\ promise.state = "resolved" =>
          /\ idState = "ok" /\ accState = "ok"
          /\ promise.value = data
          /\ \E r \in TokenResponses :
                ~r.err /\ r.body.fields = OriginalResponse(promise.value)
          /\ promise.value.fields.id_claims = IdTokenPayload
          /\ outcome = <<[kind |-> "validated",
                          claims |-> promise.value.fields.access_claims]>>
    /\ (idState = "failed" \/ accState = "failed") =>
          /\ promise.state = "rejected"
          /\ promise.reason \in
                {IdTokenError} \cup
                {outcome[i].err :
                    i \in {j \in 1..Len(outcome) : outcome[j].kind # "validated"}}
    /\ (Completed(idState) /\ Completed(accState)) => promise.state # "pending"
    /\ promise.state \in {"resolved", "rejected"} => promise = settleCalls[1]
    /\ \A i \in 1..Len(settleCalls) :
          settleCalls[i].state = "resolved" => Len(settleCalls) = 1

\* an exception escaped a verification: it did not succeed and reports
\* nothing to its callback
Crashed(st) == st = "thrown"

\* C9: after a successful token-endpoint response both verifications are
\* always started; the promise resolves only when both have succeeded, with
\* the original response carrying id_claims and access_claims; it rejects
\* when either has failed; it settles once, and never resolves when a
\* verification has failed.
C9_BothAlwaysStarted ==
    TokenResponded =>
        /\ idState # "idle" /\ accState # "idle"
        /\ JoinSettlesPromise
        /\ Crashed(accState) => promise.state = "rejected"

\* the join as far as it goes: with a cached JWK set both verifications are
\* started, without one neither is and the promise is rejected; the promise
\* resolves only when both succeeded, with the response carrying id_claims
\* and access_claims, rejects when either reported an error, is settled once
\* both have reported, in either order, and settles once.
JoinWithKeySet ==
    TokenResponded =>
        /\ jwks.type = "object" =>
              /\ idState # "idle" /\ accState # "idle"
              /\ vpc # "idle"
        /\ jwks.type # "object" =>
              /\ idState = "idle" /\ accState = "idle"
              /\ vpc = "idle"
              /\ promise.state = "rejected"
        /\ JoinSettlesPromise

\* token() never settles: the ID token is verified, the verification of the
\* access token has thrown in the callback of the introspection request, and
\* nothing is left to run
NeverSettled ==
    /\ TokenResponded
    /\ idState = "ok"
    /\ Crashed(accState)
    /\ promise.state = "pending"

\* the join resolved: the ID token was verified and the claims of an opaque
\* access token came back, and the promise carries both claims
JoinResolved ==
    /\ TokenResponded
    /\ promise.state = "resolved"
    /\ Len(requests) = 1
    /\ "id_claims" \in DOMAIN promise.value.fields
    /\ "access_claims" \in DOMAIN promise.value.fields

\* options of token() from which a code can be resolved
CodeResolvable(o) ==
    \/ "code" \in DOMAIN o /\ o.code # ""
    \/ /\ "responseUri" \in DOMAIN o
       /\ o.responseUri.text # ""
       /\ o.responseUri.query.type = "query"
       /\ \E i \in 1..Len(o.responseUri.query.pairs) :
             /\ o.responseUri.query.pairs[i][1] = "code"
             /\ o.responseUri.query.pairs[i][2] # ""

\* the operation in progress was called with an input error
InputError ==
    \/ op.name = "token" /\ configuration.type = "object" /\ ~CodeResolvable(op.options)
    \/ op.name = "userInfo" /\ ~("token" \in DOMAIN op.options /\ op.options.token # "")
    \/ op.name = "verify" /\ op.token.type = "undefined"

\* the operation failed: its promise is rejected, or it threw
Failed == promise.state = "rejected" \/ thrown.type = "TypeError"

\* C10: token() with a cached configuration and no resolvable code fails
\* with the missing-code error, and userInfo without options.token and
\* verify without a token fail, all without any HTTP request being sent.
C10_NoRequestOnInputError ==
    InputError =>
        /\ http = <<>>
        /\ requests = <<>>
        /\ vpc \in {"idle", "jwt", "done"}
        /\ (cpc = "done" \/ vpc = "done") => Failed
        /\ op.name = "token" =>
              /\ cpc = "done"
              /\ promise = [state |-> "rejected",
                            reason |-> [type |-> "Error",
                                        message |-> "Missing authorization code"]]

\* C10: ... and none of them changes the client's cached state.
C10_InputErrorsSurfaceEarly ==
    /\ []C10_NoRequestOnInputError
    /\ [][InputError' =>
            (client' = client /\ configuration' = configuration /\ jwks' = jwks)]_vars

\* C10 witness: token() was called with a redirect URI whose query has an
\* empty code, and the promise is rejected
C10_Witness ==
    /\ op.name = "token"
    /\ configuration.type = "object"
    /\ "responseUri" \in DOMAIN op.options
    /\ op.options.responseUri.text # ""
    /\ op.options.responseUri.query.type = "query"
    /\ ~CodeResolvable(op.options)
    /\ promise.state = "rejected"

(***************************************************************************)
(* Properties of discover, getJWKs and authorizationUri                    *)
(***************************************************************************)
\* no provider configuration is cached
NoConfiguration == configuration.type # "object"

\* an error the client constructs to report the missing or unusable
\* configuration, as opposed to an exception raised by the engine
IsConfigurationError(e) == e.type = "Error"

\* this step is a call of getJWKs
GetJWKsCalled ==
    /\ Len(fetches') = Len(fetches) + 1
    /\ fetches'[Len(fetches')].kind = "getJWKs"

\* this step is a call of the operation named
OperationCalled(name) == cpc = "idle" /\ op.name = "none" /\ op'.name = name

\* the cached state of the client is left as it was by this step
CacheUnchanged == client' = client /\ configuration' = configuration /\ jwks' = jwks

\* C11: in every state where no provider configuration is cached, a call of
\* getJWKs, authorizationUri or token fails with a ConfigurationError that
\* is delivered as the operation's failure result (the rejection of its
\* promise; for authorizationUri, which returns no promise, the exception),
\* sends no HTTP request and leaves the client's state unchanged.
C11_NoConfigurationFails ==
    [][/\ (NoConfiguration /\ GetJWKsCalled) =>
             /\ fetches'[Len(fetches')].promise.state = "rejected"
             /\ IsConfigurationError(fetches'[Len(fetches')].promise.reason)
             /\ http' = http
             /\ CacheUnchanged
       /\ (NoConfiguration /\ OperationCalled("token")) =>
             /\ promise'.state = "rejected"
             /\ IsConfigurationError(promise'.reason)
             /\ http' = http
             /\ CacheUnchanged
       /\ (NoConfiguration /\ OperationCalled("authorizationUri")) =>
             /\ IsConfigurationError(thrown')
             /\ http' = http
             /\ CacheUnchanged]_vars

\* what does hold without a configuration: each of the three throws a
\* TypeError at its caller, returns no promise, sends nothing and changes
\* nothing
NoConfigurationThrows ==
    [][/\ (NoConfiguration /\ GetJWKsCalled) =>
             /\ fetches'[Len(fetches')].promise = NoPromise
             /\ fetches'[Len(fetches')].thrown.type = "TypeError"
             /\ http' = http
             /\ CacheUnchanged
       /\ (NoConfiguration /\ (OperationCalled("token")
                               \/ OperationCalled("authorizationUri"))) =>
             /\ promise' = NoPromise
             /\ thrown'.type = "TypeError"
             /\ http' = http
             /\ CacheUnchanged]_vars

\* call i of discover is answered in this step
DiscoverAnswered(i) ==
    /\ fetches[i].kind = "discover"
    /\ fetches[i].promise = Pending
    /\ fetches'[i].promise # Pending

\* C12: discover succeeds exactly when the discovery response is a JSON
\* object; then the cached configuration becomes that object and the same
\* object is what the promise resolves with; on any other response (string,
\* number, null) or a transport failure discover fails and the cached
\* configuration is left unchanged.
C12_DiscoverStoresObjectsOnly ==
    [][\A i \in 1..Len(fetches) :
          DiscoverAnswered(i) =>
             LET r == fetches'[i].answer IN
             IF ~r.err /\ r.body.type = "object"
             THEN /\ configuration' = r.body
                  /\ fetches'[i].promise = Resolved(r.body)
             ELSE /\ fetches'[i].promise.state = "rejected"
                  /\ configuration' = configuration]_vars

\* what does hold: discover treats null as it treats an object
DiscoverStoresObjectsAndNull ==
    [][\A i \in 1..Len(fetches) :
          DiscoverAnswered(i) =>
             LET r == fetches'[i].answer IN
             IF ~r.err /\ r.body.type \in {"object", "null"}
             THEN /\ configuration' = r.body
                  /\ fetches'[i].promise = Resolved(r.body)
             ELSE /\ fetches'[i].promise.state = "rejected"
                  /\ configuration' = configuration]_vars

\* discover has cached null in place of a configuration
NullConfiguration ==
    /\ configuration.type = "null"
    /\ \E i \in 1..Len(fetches) : fetches[i].promise = Resolved(JSNull)

\* call i of getJWKs is answered in this step with a document {keys: [...]}
JwksFetched(i) ==
    /\ fetches[i].kind = "getJWKs"
    /\ fetches[i].promise = Pending
    /\ fetches'[i].promise # Pending
    /\ ~fetches'[i].answer.err
    /\ fetches'[i].answer.body.type = "object"
    /\ "keys" \in DOMAIN fetches'[i].answer.body.fields

\* the use values present in the list ks
Uses(ks) == {ks[n].fields.use : n \in {m \in 1..Len(ks) : "use" \in DOMAIN ks[m].fields}}

\* the last key of ks, in input order, whose use is u
LastWithUse(ks, u) ==
    ks[CHOOSE n \in 1..Len(ks) :
          /\ UseOf(ks[n]) = u
          /\ \A m \in (n + 1)..Len(ks) : UseOf(ks[m]) # u]

\* the cached KeySet is the raw list ks with its index by use, and nothing
\* else but the entry a key without use leaves
IsKeySetOf(j, ks) ==
    /\ j.type = "object"
    /\ j.fields.keys = Arr(ks)
    /\ \A u \in Uses(ks) : j.fields[u] = LastWithUse(ks, u)
    /\ DOMAIN j.fields \subseteq {"keys", "undefined"} \cup Uses(ks)

\* C13: after a successful getJWKs on a response {keys: [k1..kN]} with
\* arbitrary use values, the cached KeySet retains the raw list k1..kN in
\* input order, for every use u present its index at u is the last key in
\* input order whose use is u, and nothing of the previously cached KeySet
\* survives.
C13_KeySetRetainsListAndIndex ==
    [][\A i \in 1..Len(fetches) :
          JwksFetched(i) =>
             /\ fetches'[i].promise.state = "resolved"
             /\ IsKeySetOf(jwks', fetches'[i].answer.body.fields.keys.items)]_vars

\* what does hold: the same for every list without a key whose use is the
\* word keys
KeySetUnlessUseIsKeys ==
    [][\A i \in 1..Len(fetches) :
          (JwksFetched(i)
             /\ "keys" \notin Uses(fetches'[i].answer.body.fields.keys.items)) =>
             /\ fetches'[i].promise.state = "resolved"
             /\ IsKeySetOf(jwks', fetches'[i].answer.body.fields.keys.items)]_vars

\* the raw list of the cached KeySet has been replaced by one of its keys
RawListClobbered ==
    /\ jwks.type = "object"
    /\ jwks.fields.keys.type = "object"
    /\ \E i \in 1..Len(fetches) : fetches[i].promise = Resolved(jwks)

(***************************************************************************)
(* Properties of authorizationParams                                       *)
(***************************************************************************)
\* property k is present on the caller's options
Present(f, k) == k \in DOMAIN f
\* property k is present on the caller's options with a non-empty value
Given(f, k) == k \in DOMAIN f /\ f[k] # ""

EssentialNames == {"response_type", "client_id", "redirect_uri", "scope"}

\* the params returned for the options f are those of the claim, a caller's
\* value being one for which Counts(f, k) holds
ParamsAsClaimed(f, out, Counts(_, _)) ==
    /\ EssentialNames \subseteq DOMAIN out
    /\ out.response_type = IF Counts(f, "response_type") THEN Text(f.response_type)
                           ELSE Text("code")
    /\ out.client_id = Text(client.client_id)
    /\ out.redirect_uri = IF Counts(f, "redirect_uri") THEN Text(f.redirect_uri)
                          ELSE Text(client.redirect_uri)
    /\ out.scope = IF Counts(f, "scope") THEN Text(f.scope) ELSE ScopeText(client.scope)
    /\ \A k \in Names(optionalParameters) :
          Counts(f, k) => k \in DOMAIN out /\ out[k] = Text(f[k])
    /\ \A k \in DOMAIN f \ (EssentialNames \cup Names(optionalParameters)) :
          k \notin DOMAIN out

\* C14 (as stated): the output of authorizationParams has response_type
\* (caller's value, else 'code'), client_id (the client's), redirect_uri and
\* scope (caller's, else the client's); every allow-list key present on the
\* input is copied verbatim; every other input key is absent.
C14_PresentKeysCopied ==
    op.name = "authorizationParams" =>
        ParamsAsClaimed(OrEmpty(op.options), returned.fields, Present)

\* C14 (amended): the same, a caller's value counting only when it is not
\* empty: an essential param given as the empty string falls back to its
\* default, and an allow-list key is copied verbatim exactly when it is
\* present with a non-empty value.
C14_NonEmptyKeysCopied ==
    op.name = "authorizationParams" =>
        /\ ParamsAsClaimed(OrEmpty(op.options), returned.fields, Given)
        /\ \A k \in Names(optionalParameters) :
              k \in DOMAIN returned.fields => Given(OrEmpty(op.options), k)
        /\ DOMAIN returned.fields \subseteq EssentialNames \cup Names(optionalParameters)

\* C14 witness: the options carry a state and a property that is no request
\* param; the state is in the output, the other is not
C14_Witness ==
    /\ op.name = "authorizationParams"
    /\ op.options.type = "object"
    /\ DOMAIN op.options.fields = {"state", "foo"}
    /\ op.options.fields.state = "x"
    /\ DOMAIN returned.fields = EssentialNames \cup {"state"}

(***************************************************************************)
(* Termination of AccessToken.verify                                       *)
(***************************************************************************)
\* the invocations of the callback of AccessToken.verify so far
CallbackInvocations == {i \in 1..Len(outcome) : outcome[i].kind \in {"validated", "rejected"}}

\* the call of AccessToken.verify has nothing left to run
VerifyEnded == vpc = "done"

\* C15: every AccessToken.verify call, whatever the token and whatever the
\* outcome of decoding or of the introspection exchange, ends in exactly
\* one terminal state: its callback is invoked exactly once, with the claims
\* or with an error; and the promise of the standalone verify is settled
\* once the call has ended.
C15_CallbackExactlyOnce ==
    /\ Cardinality(CallbackInvocations) <= 1
    /\ VerifyEnded => Cardinality(CallbackInvocations) = 1
    /\ (VerifyEnded /\ op.name = "verify") => promise.state \in {"resolved", "rejected"}

\* what does hold: the callback is invoked at most once, and a call that
\* has ended without invoking it has thrown
CallbackAtMostOnce ==
    /\ Cardinality(CallbackInvocations) <= 1
    /\ Len(outcome) <= 1
    /\ VerifyEnded => Len(outcome) = 1
    /\ (VerifyEnded /\ op.name = "verify" /\ promise.state = "pending") =>
          /\ outcome[1].kind = "thrown"
          /\ Len(requests) = 1

\* the standalone verify never settles: the final callback has thrown in
\* the callback of the introspection request
VerifyNeverSettles ==
    /\ op.name = "verify"
    /\ VerifyEnded
    /\ promise.state = "pending"

(***************************************************************************)
(* Classification of the token                                             *)
(***************************************************************************)
\* the token is a string without '.'
Opaque == token.type = "string" /\ ~Structured

\* the `jwt` task runs in this step on a string token
JwtTaskRuns == vpc = "jwt" /\ vpc' = "random"

\* AccessToken.decode was applied in this step: its result was kept, or its
\* error was reported
DecodedInStep == jwtRes'.type = "object" \/ Len(outcome') > Len(outcome)

\* the two paths as the state shows them
ClassifiedOnce ==
    /\ Len(requests) <= 1
    /\ Structured => requests = <<>> /\ randomRes = JSUndefined
    /\ (Opaque /\ vpc \in {"waiting", "done"}) =>
          Len(requests) = 1 /\ requests[1].body.access_token = token
    /\ Opaque => jwtRes = JSUndefined
    /\ jwtRes.type = "object" => Structured
    /\ ClaimsResolved =>
          \/ Structured /\ jwtRes.type = "object" /\ randomRes = JSUndefined
          \/ Opaque /\ randomRes.type = "object" /\ jwtRes = JSUndefined

\* C16: within one AccessToken.verify call an introspection request is sent
\* if and only if the token contains no '.', local decoding is performed if
\* and only if it contains at least one '.', and once claim validation has
\* started the candidate claims come from exactly one of the two paths.
C16_ClassifiedExactlyOnce ==
    /\ []ClassifiedOnce
    /\ [][JwtTaskRuns => (DecodedInStep <=> Structured)]_vars
    /\ [][Len(requests') > Len(requests) => (Opaque /\ vpc = "random")]_vars

\* C16 witness: an opaque token was introspected and its claims are being
\* validated; nothing was decoded
C16_Witness ==
    /\ Opaque
    /\ Len(requests) = 1
    /\ ClaimsResolved
    /\ randomRes.type = "object"
    /\ jwtRes = JSUndefined

(***************************************************************************)
(* Concurrent discover and getJWKs calls                                   *)
(***************************************************************************)
\* j is the whole result of the JWKS document body: every one of its keys
\* is indexed, and every property of j is the raw list or a key of this
\* very list under its use
CompleteKeySet(j, body) ==
    LET ks == body.fields.keys.items IN
    /\ j.type = "object"
    /\ DOMAIN body.fields \subseteq DOMAIN j.fields
    /\ \A n \in 1..Len(ks) : UseOf(ks[n]) \in DOMAIN j.fields
    /\ \A f \in DOMAIN j.fields :
          \/ f = "keys" /\ j.fields[f] = Arr(ks)
          \/ \E n \in 1..Len(ks) : UseOf(ks[n]) = f /\ j.fields[f] = ks[n]

DiscoveriesCrossed ==
    /\ Len(fetches) = 2
    /\ fetches[1].kind = "discover" /\ fetches[2].kind = "discover"
    /\ fetches[1].promise = Resolved(configuration)
    /\ fetches[2].promise.state = "resolved"
    /\ fetches[2].promise # fetches[1].promise

(***************************************************************************)
(* No retry                                                                *)
(***************************************************************************)
\* the requests AccessToken.verify sends: one for an opaque token, none for
\* a structured one
OneIntrospection ==
    /\ Len(requests) <= 1
    /\ Structured => requests = <<>>
    /\ (Opaque /\ vpc \in {"waiting", "done"}) => Len(requests) = 1

\* each discover or getJWKs call has sent at most one request
OneRequestPerFetch ==
    cpc = "fetching" =>
        Len(http) = Cardinality({i \in 1..Len(fetches) : fetches[i].request # JSUndefined})

\* a transport failure is delivered as it is, and no claim is validated
TransportFailureDelivered ==
    /\ (vpc = "done" /\ response.err) =>
          /\ outcome = <<Rejected(TransportError)>>
          /\ checks = <<>>
          /\ op.name = "verify" => promise = RejectedWith(TransportError)
    /\ \A i \in 1..Len(fetches) :
          (fetches[i].answer # JSUndefined /\ fetches[i].answer.err) =>
              fetches[i].promise = RejectedWith(TransportError)
    /\ (op.name = "token" /\ cpc = "done" /\ http # <<>> /\ data = JSUndefined) =>
          /\ promise = RejectedWith(TransportError)
          /\ idState = "idle" /\ accState = "idle" /\ vpc = "idle"

\* this step delivers a transport failure
TransportFailureStep ==
    \/ vpc = "waiting" /\ response'.err
    \/ cpc = "tokenWait" /\ cpc' = "done" /\ data' = JSUndefined
    \/ \E i \in 1..Len(fetches) :
          fetches[i].promise = Pending /\ fetches'[i].promise = RejectedWith(TransportError)

\* C18: no retry: AccessToken.verify sends exactly one introspection
\* request for an opaque token and none for a structured one; one discover,
\* getJWKs or token call sends at most one request of its own (the
\* verification of an opaque access token inside token() being such a
\* verify call, with its one introspection request); a transport failure is
\* delivered unchanged, no claim validation is run and no cached state is
\* changed.
C18_NoRetry ==
    /\ [](/\ OneIntrospection
          /\ OneRequestPerFetch
          /\ op.name = "token" => (Len(http) <= 1 /\ Len(requests) <= 1)
          /\ TransportFailureDelivered)
    /\ [][TransportFailureStep =>
            (CacheUnchanged /\ http' = http /\ requests' = requests)]_vars

\* C18 witness: the introspection request of an opaque token failed at the
\* transport level; the error is what the callback got, one request was sent
C18_Witness ==
    /\ Opaque
    /\ vpc = "done"
    /\ response.err
    /\ Len(requests) = 1
    /\ outcome = <<Rejected(TransportError)>>

(***************************************************************************)
(* The policy token() and verify() hand to AccessToken.verify              *)
(***************************************************************************)
\* the candidate claims have the issuer of the options and an exp that is
\* not in the past
IssuedAndUnexpired ==
    /\ ClaimsResolved
    /\ CandidateClaims.type = "object"
    /\ "iss" \in DOMAIN CandidateClaims.fields
    /\ CandidateClaims.fields.iss = options.issuer
    /\ "exp" \in DOMAIN CandidateClaims.fields
    /\ CandidateClaims.fields.exp >= now

\* C19: in token() the access token is verified with {key, issuer} only:
\* neither the audience check nor the scope check is ever evaluated, claims
\* with the right iss and an unexpired exp are accepted into access_claims
\* whatever their aud and scope, and an opaque access token is introspected
\* without client credentials.
C19_TokenSkipsAudienceAndScope ==
    (op.name = "token" /\ vpc # "idle") =>
        /\ DOMAIN options = {"key", "issuer"}
        /\ \A i \in 1..Len(checks) : checks[i] \notin {"audience", "scope"}
        /\ IssuedAndUnexpired =>
              /\ outcome = <<Validated(CandidateClaims)>>
              /\ accState = "ok"
              /\ results.access_claims = CandidateClaims
        /\ \A i \in 1..Len(requests) :
              requests[i].user = "undefined" /\ requests[i].pass = "undefined"

\* C19 witness: the claims of an opaque access token, with an audience that
\* is not the client and no scope, were accepted into access_claims
C19_Witness ==
    /\ op.name = "token"
    /\ Len(requests) = 1
    /\ IssuedAndUnexpired
    /\ "scope" \notin DOMAIN CandidateClaims.fields
    /\ "aud" \in DOMAIN CandidateClaims.fields
    /\ CandidateClaims.fields.aud # client.client_id
    /\ accState = "ok"

\* s begins with r
StartsWith(s, r) == Len(s) >= Len(r) /\ SubSeq(s, 1, Len(r)) = r

\* the caller of verify passed a scope that is not empty
CallerScope == "scope" \in DOMAIN op.options /\ op.options.scope # <<>>

\* C20: the standalone verify always runs with a non-empty required scope,
\* the caller's or else the client's default, which begins with 'openid
\* profile'; a token is Validated only if claims.scope contains that whole
\* string as one contiguous substring; and the audience check is evaluated
\* if and only if the caller passes options.clients, the client's own
\* client_id never causing one.
C20_VerifyRequiresScope ==
    /\ StartsWith(client.scope, <<"openid", " ", "profile">>)
    /\ (op.name = "verify" /\ vpc # "idle") =>
          /\ "scope" \in DOMAIN options
          /\ options.scope # <<>>
          /\ options.scope = IF CallerScope THEN op.options.scope ELSE client.scope
          /\ options.client_id = client.client_id
          /\ IsValidated =>
                /\ "scope" \in DOMAIN outcome[1].claims.fields
                /\ Contains(outcome[1].claims.fields.scope, options.scope)
          /\ \A i \in 1..Len(checks) :
                checks[i] = "audience" => "clients" \in DOMAIN op.options
          /\ (ClaimsResolved /\ Len(checks) >= 2 /\ "clients" \in DOMAIN op.options) =>
                checks[2] = "audience"

\* C20 witness: verify was called without a scope and without clients on a
\* token of another audience whose scope contains the client's default
\* scope, and the token is Validated
C20_Witness ==
    /\ op.name = "verify"
    /\ ~CallerScope
    /\ "clients" \notin DOMAIN op.options
    /\ IsValidated
    /\ outcome[1].claims.fields.aud # client.client_id
    /\ options.scope = client.scope

====
